---- MODULE Spec2Model ----
(***************************************************************************)
(* Event ingestion, deduplication and data management of the worker        *)
(* productivity dashboard backend (FastAPI handlers over one SQLite        *)
(* database reached through SQLAlchemy sessions).                          *)
(*                                                                         *)
(* The database is the committed state: the tables workers, workstations   *)
(* and events.  A session's flushed-but-uncommitted rows are its pending   *)
(* transaction; Session.rollback() discards the WHOLE pending transaction. *)
(* Timestamps are abstract instants 1..MaxTime, confidences are tenths     *)
(* (0..10 for 0.0..1.0).  Metrics are computed on read from the committed  *)
(* events; times are whole minutes, percentages and hourly rates are in    *)
(* hundredths (6667 for 66.67), the two decimals the results are rounded   *)
(* to.                                                                     *)
(***************************************************************************)
EXTENDS Integers, Sequences, FiniteSets, TLC

VARIABLES
    started,    \* lifespan() has run (main.py)
    workers,    \* worker_id of the rows of table workers
    stations,   \* station_id of the rows of table workstations
    events,     \* rows of table events (committed)
    now,        \* datetime.utcnow(), the arrival clock
    resp,       \* the response of the handler that ran last, until the client takes it
    lock,       \* SQLite's database write lock: 0, or the request holding it
    req         \* requests in flight whose statements interleave with other commits:
                \* by request slot (SpecConc, SpecReg), or the dashboard request (SpecDash)

vars == <<started, workers, stations, events, now, resp, lock, req>>

----------------------------------------------------------------------------
(* Bounds of the model *)

MaxTime == 2        \* event timestamps are 1..MaxTime
MaxBatch == 2       \* longest batch of the sequential specification
MaxGen == 2         \* iterations of the generator's loop that are followed
MaxLong == 13       \* longest batch of the diagnostics specification
MaxConcBatch == 2   \* longest batch of a concurrent request

(* Program constants *)

ErrCap == 10            \* errors[:10]
BatchMinLen == 1        \* EventBatchCreate.events min_length
BatchMaxLen == 1000     \* EventBatchCreate.events max_length
ConfMax == 10           \* confidence le=1.0, in tenths
EVENT_DURATION_MINUTES == 5

allowed_types == {"working", "idle", "absent", "product_count"}

SAMPLE_WORKERS == {"W1", "W2", "W3", "W4", "W5", "W6"}
SAMPLE_WORKSTATIONS == {"S1", "S2", "S3", "S4", "S5", "S6"}

(* Inputs *)

Times == 1..MaxTime
InTypes == {"working", "product_count", "bogus"}    \* event_type of submitted items
PayloadA == <<9, 0>>                                \* <<confidence, count>> of submitted items
PayloadB == <<5, 3>>
RegIds == {"W1"}                                    \* ids of create/delete worker calls
RegStationIds == {"S1"}                             \* ids of create/delete workstation calls
GenWorkers == {"W1"}                                \* workers whose generated events are followed
GenStations == {"S1"}                               \* stations whose generated events are followed
GenTypes == {"working", "idle"}                     \* the generator's event types followed
GenTimes == {1, 2}                                  \* jittered timestamps of generated events
GenUnits == {3}                                     \* random.randint(1, 5), the draws followed

Min(a, b) == IF a < b THEN a ELSE b

Item(ts, w, s, ty, p) ==
    [timestamp |-> ts, worker_id |-> w, workstation_id |-> s, event_type |-> ty,
     confidence |-> p[1], count |-> p[2]]

\* Submitted items: for the sample pair (W1, S1) a working event at every
\* timestamp, a second working event and a product_count event at timestamp 1
\* with another payload, and an event of a type outside the enumeration; and
\* one item for each way of naming an identifier that is never registered
\* (W9, S9).
Items ==
    {Item(ts, "W1", "S1", "working", PayloadA) : ts \in Times}
    \cup {Item(1, "W1", "S1", ty, PayloadB) : ty \in InTypes}
    \cup {Item(1, "W9", "S1", "working", PayloadA),
          Item(1, "W1", "S9", "working", PayloadA),
          Item(1, "W9", "S9", "working", PayloadA)}

Batches == UNION {[1..n -> Items] : n \in 0..MaxBatch}

----------------------------------------------------------------------------
(* The events table and the request schema *)

\* uq_event_dedup: the columns of the unique constraint
Key(e) == <<e.timestamp, e.worker_id, e.workstation_id, e.event_type>>

\* (mutant) the constraint compares whole rows, so a key may repeat with another payload
UniqueViolation_WholeRow(committed, tx, e) ==
    \E f \in committed \cup tx : f = e

\* The database refuses an INSERT whose key is carried by a committed row or
\* by a row this session has flushed (IntegrityError).
UniqueViolation(committed, tx, e) ==
    \E f \in committed \cup tx : Key(f) = Key(e)

\* EventCreate: the field constraints and validate_event_type
SchemaValid(item) ==
    /\ item.event_type \in allowed_types
    /\ item.confidence >= 0 /\ item.confidence <= ConfMax
    /\ item.count >= 0

\* EventBatchCreate: the length of the list and every item
BatchSchemaValid(batch) ==
    /\ Len(batch) >= BatchMinLen /\ Len(batch) <= BatchMaxLen
    /\ \A i \in 1..Len(batch) : SchemaValid(batch[i])

\* `event.count or 0`
CountOrZero(c) == IF c = 0 THEN 0 ELSE c

\* Event(timestamp=..., ..., count=event.count or 0, received_at=datetime.utcnow())
MkEvent(item, t) ==
    [timestamp |-> item.timestamp, worker_id |-> item.worker_id,
     workstation_id |-> item.workstation_id, event_type |-> item.event_type,
     confidence |-> item.confidence, count |-> CountOrZero(item.count),
     received_at |-> t]

\* Session.rollback(): the pending transaction is discarded as a whole
Rollback(tx) == {}

----------------------------------------------------------------------------
(* Responses *)

NoResp ==
    [op |-> "none", status |-> 0, batch |-> <<>>, before |-> {},
     total_received |-> 0, successfully_stored |-> 0, duplicates_skipped |-> 0,
     errors |-> <<>>, outcome |-> <<>>, created |-> <<0, 0>>, count |-> 0,
     query |-> <<>>, result |-> <<>>]

Resp(op, status, batch, before) ==
    [NoResp EXCEPT !.op = op, !.status = status, !.batch = batch, !.before = before]

----------------------------------------------------------------------------
(* POST /events/ *)

\* (mutant) a key collision replaces the stored row instead of failing with 409
IngestOutcome_Upsert(item, ws, ss, committed, t) ==
    IF ~SchemaValid(item) THEN [status |-> 422, rows |-> committed]
    ELSE IF item.worker_id \notin ws THEN [status |-> 400, rows |-> committed]
    ELSE IF item.workstation_id \notin ss THEN [status |-> 400, rows |-> committed]
    ELSE [status |-> 201,
          rows |-> {f \in committed : Key(f) # Key(MkEvent(item, t))}
                   \cup {MkEvent(item, t)}]

\* The outcome of ingest_event on `item`: the HTTP status and the rows committed.
IngestOutcome(item, ws, ss, committed, t) ==
    IF ~SchemaValid(item) THEN [status |-> 422, rows |-> committed]
    ELSE IF item.worker_id \notin ws THEN [status |-> 400, rows |-> committed]
    ELSE IF item.workstation_id \notin ss THEN [status |-> 400, rows |-> committed]
    ELSE IF UniqueViolation(committed, {}, MkEvent(item, t))
         THEN [status |-> 409, rows |-> committed \cup Rollback({MkEvent(item, t)})]
    ELSE [status |-> 201, rows |-> committed \cup {MkEvent(item, t)}]

IngestEvent(item) ==
    /\ started /\ resp.op = "none"
    /\ LET out == IngestOutcome(item, workers, stations, events, now) IN
        /\ events' = out.rows
        /\ resp' = Resp("ingest_event", out.status, <<item>>, events)
    /\ UNCHANGED <<started, workers, stations, now, lock, req>>

----------------------------------------------------------------------------
(* POST /events/batch *)

\* stored, duplicates, errors and the session's pending rows before the loop;
\* outcome records how each item was classified.
BatchStart ==
    [tx |-> {}, stored |-> 0, duplicates |-> 0, errors |-> <<>>, outcome |-> <<>>]

\* (mutant) the workstation reference is not validated
BatchStep_NoStationCheck(st, item, committed, valid_workers, valid_stations, t) ==
    IF item.worker_id \notin valid_workers
    THEN [st EXCEPT !.errors = Append(@, <<"Unknown worker_id", item.worker_id>>),
                    !.outcome = Append(@, "rejected")]
    ELSE IF UniqueViolation(committed, st.tx, MkEvent(item, t))
    THEN [st EXCEPT !.tx = {},
                    !.duplicates = @ + 1,
                    !.outcome = Append(@, "duplicate")]
    ELSE [st EXCEPT !.tx = @ \cup {MkEvent(item, t)},
                    !.stored = @ + 1,
                    !.outcome = Append(@, "stored")]

\* (mutant) an item with two unknown references gets a diagnostic for each
BatchStep_BothDiagnostics(st, item, committed, valid_workers, valid_stations, t) ==
    IF item.worker_id \notin valid_workers /\ item.workstation_id \notin valid_stations
    THEN [st EXCEPT !.errors = @ \o << <<"Unknown worker_id", item.worker_id>>,
                                       <<"Unknown workstation_id", item.workstation_id>> >>,
                    !.outcome = Append(@, "rejected")]
    ELSE BatchStep_NoStationCheck(st, item, committed, valid_workers, valid_stations, t)

\* One iteration of `for event in batch.events`
BatchStep(st, item, committed, valid_workers, valid_stations, t) ==
    IF item.worker_id \notin valid_workers
    THEN [st EXCEPT !.errors = Append(@, <<"Unknown worker_id", item.worker_id>>),
                    !.outcome = Append(@, "rejected")]
    ELSE IF item.workstation_id \notin valid_stations
    THEN [st EXCEPT !.errors = Append(@, <<"Unknown workstation_id", item.workstation_id>>),
                    !.outcome = Append(@, "rejected")]
    ELSE IF UniqueViolation(committed, st.tx, MkEvent(item, t))
    THEN [st EXCEPT !.tx = Rollback(@ \cup {MkEvent(item, t)}),
                    !.duplicates = @ + 1,
                    !.outcome = Append(@, "duplicate")]
    ELSE [st EXCEPT !.tx = @ \cup {MkEvent(item, t)},
                    !.stored = @ + 1,
                    !.outcome = Append(@, "stored")]

RECURSIVE BatchLoop(_, _, _, _, _, _, _)
BatchLoop(st, batch, i, committed, valid_workers, valid_stations, t) ==
    IF i > Len(batch) THEN st
    ELSE BatchLoop(BatchStep(st, batch[i], committed, valid_workers, valid_stations, t),
                   batch, i + 1, committed, valid_workers, valid_stations, t)

\* errors[:10]
Truncate(errors) == SubSeq(errors, 1, Min(Len(errors), ErrCap))

\* EventIngestionResult(...)
BatchResult(st, batch, before) ==
    [Resp("ingest_batch", 200, batch, before) EXCEPT
        !.total_received = Len(batch),
        !.successfully_stored = st.stored,
        !.duplicates_skipped = st.duplicates,
        !.errors = Truncate(st.errors),
        !.outcome = st.outcome]

IngestBatch(batch) ==
    /\ started /\ resp.op = "none"
    /\ IF ~BatchSchemaValid(batch)
       THEN /\ events' = events
            /\ resp' = Resp("ingest_batch", 422, batch, events)
       ELSE LET st == BatchLoop(BatchStart, batch, 1, events, workers, stations, now) IN
            /\ events' = events \cup st.tx
            /\ resp' = BatchResult(st, batch, events)
    /\ UNCHANGED <<started, workers, stations, now, lock, req>>

----------------------------------------------------------------------------
(* The client takes the response *)

Respond ==
    /\ resp.op # "none"
    /\ resp' = NoResp
    /\ UNCHANGED <<started, workers, stations, events, now, lock, req>>

----------------------------------------------------------------------------
(* Data management: seeding, dummy events, reset *)

\* seed_sample_data: the sample rows that do not exist yet are added
SeedWorkers(ws) == ws \cup SAMPLE_WORKERS
SeedStations(ss) == ss \cup SAMPLE_WORKSTATIONS

\* (mutant) the numbers returned are those of the sample rows
SeedCreated_All(ws, ss) ==
    <<Cardinality(SAMPLE_WORKERS), Cardinality(SAMPLE_WORKSTATIONS)>>

\* workers_created, workstations_created
SeedCreated(ws, ss) ==
    <<Cardinality(SAMPLE_WORKERS \ ws), Cardinality(SAMPLE_WORKSTATIONS \ ss)>>

\* One pass of the generator's innermost loop body, as drawn by random: the
\* worker, its station, the event type, the jittered timestamp, and whether a
\* production event follows (prod, units).
GenInputs(ws, ss) ==
    {[worker_id |-> w, workstation_id |-> s, event_type |-> ty, timestamp |-> ts,
      prod |-> pr, units |-> u] :
        w \in GenWorkers \cap ws, s \in GenStations \cap ss, ty \in GenTypes,
        ts \in GenTimes, pr \in BOOLEAN, u \in GenUnits}

\* The passes of one call for a worker: one per time interval of the shift,
\* so their timestamps increase (the intervals are minutes apart, the jitter
\* is seconds); a production event is followed when its timestamp is one of
\* GenTimes.
GenRuns(ws, ss) ==
    {run \in UNION {[1..n -> {g \in GenInputs(ws, ss) :
                                g.prod => (g.event_type = "working"
                                            /\ g.timestamp + 1 \in GenTimes)}] :
                    n \in 0..MaxGen} :
        \A i \in 1..(Len(run) - 1) : run[i].timestamp < run[i + 1].timestamp}

\* Event(..., confidence=round(confidence, 3), count=0); received_at defaults to utcnow
GenEvent(g, t) ==
    [timestamp |-> g.timestamp, worker_id |-> g.worker_id,
     workstation_id |-> g.workstation_id, event_type |-> g.event_type,
     confidence |-> 9, count |-> 0, received_at |-> t]

\* prod_event: shortly after the working event, with the units drawn
GenProdEvent(g, t) ==
    [timestamp |-> g.timestamp + 1, worker_id |-> g.worker_id,
     workstation_id |-> g.workstation_id, event_type |-> "product_count",
     confidence |-> 9, count |-> g.units, received_at |-> t]

GenStart == [tx |-> {}, events_created |-> 0]

\* The try/except of the generator's loop body
GenStep(st, g, committed, t) ==
    IF UniqueViolation(committed, st.tx, GenEvent(g, t))
    THEN [st EXCEPT !.tx = Rollback(@)]
    ELSE LET st1 == [st EXCEPT !.tx = @ \cup {GenEvent(g, t)},
                               !.events_created = @ + 1] IN
         IF g.event_type = "working" /\ g.prod
         THEN IF UniqueViolation(committed, st1.tx, GenProdEvent(g, t))
              THEN [st1 EXCEPT !.tx = Rollback(@)]
              ELSE [st1 EXCEPT !.tx = @ \cup {GenProdEvent(g, t)},
                               !.events_created = @ + 1]
         ELSE st1

RECURSIVE GenLoop(_, _, _, _, _)
GenLoop(st, run, i, committed, t) ==
    IF i > Len(run) THEN st
    ELSE GenLoop(GenStep(st, run[i], committed, t), run, i + 1, committed, t)

\* generate_dummy_events: the rows committed and the count returned; ok is
\* FALSE when it raises ValueError (after the optional delete has committed).
GenerateDummy(clear_existing, run, ws, ss, committed, t) ==
    LET base == IF clear_existing THEN {} ELSE committed IN
    IF ws = {} \/ ss = {}
    THEN [ok |-> FALSE, rows |-> base, count |-> 0]
    ELSE LET st == GenLoop(GenStart, run, 1, base, t) IN
         [ok |-> TRUE, rows |-> base \cup st.tx, count |-> st.events_created]

\* POST /data/seed
SeedData ==
    /\ started /\ resp.op = "none"
    /\ workers' = SeedWorkers(workers)
    /\ stations' = SeedStations(stations)
    /\ resp' = [Resp("seed_data", 200, <<>>, events) EXCEPT
                    !.created = SeedCreated(workers, stations)]
    /\ UNCHANGED <<started, events, now, lock, req>>

\* POST /data/generate-events
GenerateEvents(clear_existing, run) ==
    /\ started /\ resp.op = "none"
    /\ LET out == GenerateDummy(clear_existing, run, workers, stations, events, now) IN
        /\ events' = out.rows
        /\ resp' = [Resp("generate_events", IF out.ok THEN 200 ELSE 400, <<>>, events)
                        EXCEPT !.count = out.count]
    /\ UNCHANGED <<started, workers, stations, now, lock, req>>

\* POST /data/initialize
InitializeData(run) ==
    /\ started /\ resp.op = "none"
    /\ LET ws == SeedWorkers(workers)
           ss == SeedStations(stations)
           out == GenerateDummy(FALSE, run, ws, ss, events, now) IN
        /\ workers' = ws
        /\ stations' = ss
        /\ events' = out.rows
        /\ resp' = [Resp("initialize_data", 200, <<>>, events) EXCEPT
                        !.created = SeedCreated(workers, stations),
                        !.count = out.count]
    /\ UNCHANGED <<started, now, lock, req>>

\* POST /data/refresh
RefreshData(run) ==
    /\ started /\ resp.op = "none"
    /\ LET ws == SeedWorkers(workers)
           ss == SeedStations(stations)
           out == GenerateDummy(TRUE, run, ws, ss, events, now) IN
        /\ workers' = ws
        /\ stations' = ss
        /\ events' = out.rows
        /\ resp' = [Resp("refresh_data", 200, <<>>, events) EXCEPT
                        !.created = SeedCreated(workers, stations),
                        !.count = out.count]
    /\ UNCHANGED <<started, now, lock, req>>

\* DELETE /data/events (clear_all_events)
ClearEvents ==
    /\ started /\ resp.op = "none"
    /\ events' = {}
    /\ resp' = [Resp("clear_events", 200, <<>>, events) EXCEPT
                    !.count = Cardinality(events)]
    /\ UNCHANGED <<started, workers, stations, now, lock, req>>

\* lifespan(): seed, then dummy events when the table is empty
Startup(run) ==
    /\ ~started
    /\ started' = TRUE
    /\ LET ws == SeedWorkers(workers)
           ss == SeedStations(stations) IN
        /\ workers' = ws
        /\ stations' = ss
        /\ events' = IF events = {}
                     THEN GenerateDummy(FALSE, run, ws, ss, events, now).rows
                     ELSE events
    /\ UNCHANGED <<now, resp, lock, req>>

----------------------------------------------------------------------------
(* Workers and workstations *)

\* POST /workers/
CreateWorker(w) ==
    /\ started /\ resp.op = "none"
    /\ IF w \in workers
       THEN /\ workers' = workers
            /\ resp' = Resp("create_worker", 409, <<>>, events)
       ELSE /\ workers' = workers \cup {w}
            /\ resp' = Resp("create_worker", 201, <<>>, events)
    /\ UNCHANGED <<started, stations, events, now, lock, req>>

\* DELETE /workers/{worker_id}: the worker's events would be set to
\* worker_id NULL, which the column refuses, so the delete fails when it has any.
DeleteWorker(w) ==
    /\ started /\ resp.op = "none"
    /\ IF w \notin workers
       THEN /\ workers' = workers
            /\ resp' = Resp("delete_worker", 404, <<>>, events)
       ELSE IF \E e \in events : e.worker_id = w
       THEN /\ workers' = workers
            /\ resp' = Resp("delete_worker", 500, <<>>, events)
       ELSE /\ workers' = workers \ {w}
            /\ resp' = Resp("delete_worker", 200, <<>>, events)
    /\ UNCHANGED <<started, stations, events, now, lock, req>>

\* POST /workstations/
CreateWorkstation(s) ==
    /\ started /\ resp.op = "none"
    /\ IF s \in stations
       THEN /\ stations' = stations
            /\ resp' = Resp("create_workstation", 409, <<>>, events)
       ELSE /\ stations' = stations \cup {s}
            /\ resp' = Resp("create_workstation", 201, <<>>, events)
    /\ UNCHANGED <<started, workers, events, now, lock, req>>

\* DELETE /workstations/{station_id}
DeleteWorkstation(s) ==
    /\ started /\ resp.op = "none"
    /\ IF s \notin stations
       THEN /\ stations' = stations
            /\ resp' = Resp("delete_workstation", 404, <<>>, events)
       ELSE IF \E e \in events : e.workstation_id = s
       THEN /\ stations' = stations
            /\ resp' = Resp("delete_workstation", 500, <<>>, events)
       ELSE /\ stations' = stations \ {s}
            /\ resp' = Resp("delete_workstation", 200, <<>>, events)
    /\ UNCHANGED <<started, workers, events, now, lock, req>>

----------------------------------------------------------------------------
(* The sequential specification: one request at a time, each handler atomic *)

Slots == {1, 2}

IdleReq ==
    [kind |-> "idle", items |-> <<>>, pc |-> "idle", idx |-> 1,
     valid_workers |-> {}, valid_stations |-> {}, st |-> BatchStart, status |-> 0]

Init ==
    /\ started = FALSE
    /\ workers = {}
    /\ stations = {}
    /\ events = {}
    /\ now = 0
    /\ resp = NoResp
    /\ lock = 0
    /\ req = [p \in Slots |-> IdleReq]

Next ==
    \/ \E run \in GenRuns(SAMPLE_WORKERS, SAMPLE_WORKSTATIONS) : Startup(run)
    \/ \E item \in Items : IngestEvent(item)
    \/ \E batch \in Batches : IngestBatch(batch)
    \/ SeedData
    \/ \E c \in BOOLEAN : \E run \in GenRuns(workers, stations) : GenerateEvents(c, run)
    \/ \E run \in GenRuns(SAMPLE_WORKERS, SAMPLE_WORKSTATIONS) : InitializeData(run)
    \/ \E run \in GenRuns(SAMPLE_WORKERS, SAMPLE_WORKSTATIONS) : RefreshData(run)
    \/ ClearEvents
    \/ \E w \in RegIds : CreateWorker(w)
    \/ \E w \in RegIds : DeleteWorker(w)
    \/ \E s \in RegStationIds : CreateWorkstation(s)
    \/ \E s \in RegStationIds : DeleteWorkstation(s)
    \/ Respond

Spec == Init /\ [][Next]_vars

----------------------------------------------------------------------------
(* The diagnostics specification: long batches of two kinds of item, from   *)
(* the seeded database with no events (after startup and an event reset)    *)

LongItems ==
    {Item(1, "W9", "S1", "working", PayloadA), Item(1, "W1", "S1", "working", PayloadA)}

LongBatches == UNION {[1..n -> LongItems] : n \in (ErrCap + 1)..MaxLong}

InitDiag ==
    /\ started = TRUE
    /\ workers = SAMPLE_WORKERS
    /\ stations = SAMPLE_WORKSTATIONS
    /\ events = {}
    /\ now = 0
    /\ resp = NoResp
    /\ lock = 0
    /\ req = [p \in Slots |-> IdleReq]

NextDiag ==
    \/ \E batch \in LongBatches : IngestBatch(batch)
    \/ Respond

SpecDiag == InitDiag /\ [][NextDiag]_vars

----------------------------------------------------------------------------
(* The concurrent specification: two requests, each in its own session,     *)
(* interleaved at their database statements.  SQLite has one write lock: a  *)
(* session takes it with its first flushed INSERT and holds it until its    *)
(* commit or rollback; an INSERT of another session waits for it.           *)

ConcItems ==
    {Item(1, "W1", "S1", "working", PayloadA), Item(1, "W1", "S1", "working", PayloadB),
     Item(2, "W1", "S1", "working", PayloadA), Item(1, "W9", "S1", "working", PayloadA)}

ConcBatches == UNION {[1..n -> ConcItems] : n \in 1..MaxConcBatch}

\* the event stored before the two requests arrive
PreStored == {MkEvent(Item(2, "W1", "S1", "working", PayloadA), 0)}

InitConc ==
    /\ started = TRUE
    /\ workers = SAMPLE_WORKERS
    /\ stations = SAMPLE_WORKSTATIONS
    /\ events = PreStored
    /\ now = 0
    /\ resp = NoResp
    /\ lock = 0
    /\ req = [p \in Slots |-> IdleReq]

\* a request arrives; FastAPI opens its session (get_db)
Submit(p, kind, items) ==
    /\ req[p].pc = "idle"
    /\ req' = [req EXCEPT ![p] = [IdleReq EXCEPT !.kind = kind, !.items = items,
                                                 !.pc = "refs"]]
    /\ UNCHANGED <<started, workers, stations, events, now, resp, lock>>

\* ingest_event: the two reference queries
SingleCheckRefs(p) ==
    /\ req[p].pc = "refs" /\ req[p].kind = "single"
    /\ LET item == req[p].items[1] IN
       IF item.worker_id \notin workers \/ item.workstation_id \notin stations
       THEN req' = [req EXCEPT ![p].pc = "done", ![p].status = 400]
       ELSE req' = [req EXCEPT ![p].pc = "insert"]
    /\ UNCHANGED <<started, workers, stations, events, now, resp, lock>>

\* ingest_event: db.add, db.commit (INSERT, then COMMIT or the rollback)
SingleCommit(p) ==
    /\ req[p].pc = "insert"
    /\ lock = 0
    /\ LET out == IngestOutcome(req[p].items[1], workers, stations, events, now) IN
        /\ events' = out.rows
        /\ req' = [req EXCEPT ![p].pc = "done", ![p].status = out.status]
    /\ UNCHANGED <<started, workers, stations, now, resp, lock>>

\* ingest_events_batch: valid_workers, valid_stations
BatchReadRefs(p) ==
    /\ req[p].pc = "refs" /\ req[p].kind = "batch"
    /\ req' = [req EXCEPT ![p].pc = "loop", ![p].valid_workers = workers,
                          ![p].valid_stations = stations]
    /\ UNCHANGED <<started, workers, stations, events, now, resp, lock>>

\* ingest_events_batch: one iteration of the loop; a flushed INSERT needs the
\* write lock, which the rollback gives back
BatchItem(p) ==
    /\ req[p].pc = "loop" /\ req[p].idx <= Len(req[p].items)
    /\ LET item == req[p].items[req[p].idx]
           flushes == /\ item.worker_id \in req[p].valid_workers
                      /\ item.workstation_id \in req[p].valid_stations
           st == BatchStep(req[p].st, item, events, req[p].valid_workers,
                           req[p].valid_stations, now) IN
        /\ flushes => lock \in {0, p}
        /\ req' = [req EXCEPT ![p].st = st, ![p].idx = @ + 1]
        /\ lock' = IF ~flushes THEN lock ELSE IF st.tx = {} THEN 0 ELSE p
    /\ UNCHANGED <<started, workers, stations, events, now, resp>>

\* ingest_events_batch: db.commit() after the loop
BatchCommit(p) ==
    /\ req[p].pc = "loop" /\ req[p].idx > Len(req[p].items)
    /\ events' = events \cup req[p].st.tx
    /\ lock' = IF lock = p THEN 0 ELSE lock
    /\ req' = [req EXCEPT ![p].pc = "done", ![p].status = 200]
    /\ UNCHANGED <<started, workers, stations, now, resp>>

NextConc ==
    \E p \in Slots :
        \/ \E item \in ConcItems : Submit(p, "single", <<item>>)
        \/ \E batch \in ConcBatches : Submit(p, "batch", batch)
        \/ SingleCheckRefs(p)
        \/ SingleCommit(p)
        \/ BatchReadRefs(p)
        \/ BatchItem(p)
        \/ BatchCommit(p)

SpecConc == InitConc /\ [][NextConc]_vars

----------------------------------------------------------------------------
(* The metrics engine *)

NoBound == 0    \* start_time / end_time is None
NoId == ""      \* worker_id / station_id is None

WorkerName ==
    ("W1" :> "John Martinez") @@ ("W2" :> "Sarah Chen") @@ ("W3" :> "Michael Johnson")
    @@ ("W4" :> "Emily Davis") @@ ("W5" :> "Robert Kim") @@ ("W6" :> "Lisa Thompson")

StationName ==
    ("S1" :> "Assembly Line A") @@ ("S2" :> "Assembly Line B")
    @@ ("S3" :> "Quality Control 1") @@ ("S4" :> "Quality Control 2")
    @@ ("S5" :> "Packaging Station") @@ ("S6" :> "Final Inspection")

StationType ==
    ("S1" :> "Assembly") @@ ("S2" :> "Assembly") @@ ("S3" :> "Quality Check")
    @@ ("S4" :> "Quality Check") @@ ("S5" :> "Packaging") @@ ("S6" :> "Inspection")

\* round(num / den): the nearest integer, an exact half going to the even one
RoundHalfEven(num, den) ==
    LET q == num \div den
        r == num % den IN
    IF 2 * r < den THEN q
    ELSE IF 2 * r > den THEN q + 1
    ELSE IF q % 2 = 0 THEN q ELSE q + 1

\* round(num / den, 2), in hundredths
Round2(num, den) == RoundHalfEven(num * 100, den)

\* round(sum(...) / len(...), 2) of values that are two-decimal floats, in
\* hundredths: when the exact mean is a half of a hundredth the binary floats
\* lie on either side of it, and the result is either neighbour.
RoundMean(total, n) ==
    IF (2 * (total % n)) = n
    THEN {total \div n, (total \div n) + 1}
    ELSE {RoundHalfEven(total, n)}

\* (mutant) the end of the window is exclusive
EventsInWindow_EndExclusive(rows, start_time, end_time) ==
    {e \in rows :
        /\ (start_time # NoBound => e.timestamp >= start_time)
        /\ (end_time # NoBound => e.timestamp < end_time)}

\* the two optional filters on Event.timestamp
EventsInWindow(rows, start_time, end_time) ==
    {e \in rows :
        /\ (start_time # NoBound => e.timestamp >= start_time)
        /\ (end_time # NoBound => e.timestamp <= end_time)}

\* (mutant) only the events the detector is confident of are counted
CountOfType_ConfidentOnly(evs, ty) ==
    Cardinality({e \in evs : e.event_type = ty /\ 2 * e.confidence > ConfMax})

\* (mutant) a product_count event is counted as a working event
CountOfType_ProductIsWorking(evs, ty) ==
    Cardinality({e \in evs :
        e.event_type = ty \/ (ty = "working" /\ e.event_type = "product_count")})

\* (mutant) absent events are counted with the idle ones
CountOfType_AbsentIsIdle(evs, ty) ==
    Cardinality({e \in evs : e.event_type = ty \/ (ty = "idle" /\ e.event_type = "absent")})

\* sum(1 for e in events if e.event_type == ty)
CountOfType(evs, ty) == Cardinality({e \in evs : e.event_type = ty})

RECURSIVE SumCount(_)
SumCount(evs) ==
    IF evs = {} THEN 0
    ELSE LET e == CHOOSE x \in evs : TRUE IN CountOrZero(e.count) + SumCount(evs \ {e})

\* (mutant) the count of every event is summed, whatever its type
TotalUnits_AllTypes(evs) == SumCount(evs)

\* sum(e.count or 0 for e in events if e.event_type == 'product_count')
TotalUnits(evs) == SumCount({e \in evs : e.event_type = "product_count"})

\* (mutant) the utilization of the workstation is taken over the idle time
Utilization_OverIdle(active_time, idle_time) ==
    IF active_time + idle_time > 0 /\ idle_time > 0
    THEN Round2(active_time * 100, idle_time)
    ELSE 0

\* utilization: active / (active + idle) * 100, or 0.0
Utilization(active_time, idle_time) ==
    IF active_time + idle_time > 0
    THEN Round2(active_time * 100, active_time + idle_time)
    ELSE 0

\* (mutant) the rate is per minute
HourlyRate_PerMinute(total_units, minutes) ==
    IF minutes > 0 THEN Round2(total_units, minutes) ELSE 0

\* units per hour: total_units / (minutes / 60), or 0.0
HourlyRate(total_units, minutes) ==
    IF minutes > 0 THEN Round2(total_units * 60, minutes) ELSE 0

\* (mutant) the worker's record is computed from the events of every worker
WorkerMetricsOf_AllWorkers(w, rows, start_time, end_time) ==
    LET evs == EventsInWindow(rows, start_time, end_time)
        active_time == CountOfType(evs, "working") * EVENT_DURATION_MINUTES
        idle_time == CountOfType(evs, "idle") * EVENT_DURATION_MINUTES
        absent_time == CountOfType(evs, "absent") * EVENT_DURATION_MINUTES
        total_units == TotalUnits(evs) IN
    [worker_id |-> w,
     worker_name |-> WorkerName[w],
     total_active_time_minutes |-> active_time,
     total_idle_time_minutes |-> idle_time,
     total_absent_time_minutes |-> absent_time,
     utilization_percentage |-> Utilization(active_time, idle_time),
     total_units_produced |-> total_units,
     units_per_hour |-> HourlyRate(total_units, active_time),
     event_count |-> Cardinality(evs)]

\* the body of the loop of compute_worker_metrics for one worker
WorkerMetricsOf(w, rows, start_time, end_time) ==
    LET evs == {e \in EventsInWindow(rows, start_time, end_time) : e.worker_id = w}
        active_time == CountOfType(evs, "working") * EVENT_DURATION_MINUTES
        idle_time == CountOfType(evs, "idle") * EVENT_DURATION_MINUTES
        absent_time == CountOfType(evs, "absent") * EVENT_DURATION_MINUTES
        total_units == TotalUnits(evs) IN
    [worker_id |-> w,
     worker_name |-> WorkerName[w],
     total_active_time_minutes |-> active_time,
     total_idle_time_minutes |-> idle_time,
     total_absent_time_minutes |-> absent_time,
     utilization_percentage |-> Utilization(active_time, idle_time),
     total_units_produced |-> total_units,
     units_per_hour |-> HourlyRate(total_units, active_time),
     event_count |-> Cardinality(evs)]

\* the records of the workers selected (all of them when worker_id is None)
compute_worker_metrics(rows, ws, worker_id, start_time, end_time) ==
    {WorkerMetricsOf(w, rows, start_time, end_time) :
        w \in IF worker_id # NoId THEN ws \cap {worker_id} ELSE ws}

\* the body of the loop of compute_workstation_metrics for one station
StationMetricsOf(s, rows, start_time, end_time) ==
    LET evs == {e \in EventsInWindow(rows, start_time, end_time) : e.workstation_id = s}
        working_time == CountOfType(evs, "working") * EVENT_DURATION_MINUTES
        idle_time == CountOfType(evs, "idle") * EVENT_DURATION_MINUTES
        occupancy_time == working_time + idle_time
        total_units == TotalUnits(evs) IN
    [station_id |-> s,
     station_name |-> StationName[s],
     station_type |-> StationType[s],
     occupancy_time_minutes |-> occupancy_time,
     working_time_minutes |-> working_time,
     idle_time_minutes |-> idle_time,
     utilization_percentage |-> Utilization(working_time, idle_time),
     total_units_produced |-> total_units,
     throughput_rate |-> HourlyRate(total_units, occupancy_time),
     event_count |-> Cardinality(evs)]

compute_workstation_metrics(rows, ss, station_id, start_time, end_time) ==
    {StationMetricsOf(s, rows, start_time, end_time) :
        s \in IF station_id # NoId THEN ss \cap {station_id} ELSE ss}

RECURSIVE SumUtilization(_)
SumUtilization(ms) ==
    IF ms = {} THEN 0
    ELSE LET m == CHOOSE x \in ms : TRUE IN
         m.utilization_percentage + SumUtilization(ms \ {m})

\* (mutant) every registered entity enters the average
ActiveOf_All(ms) == ms

\* [w for w in worker_metrics if w.event_count > 0]
ActiveOf(ms) == {m \in ms : m.event_count > 0}

\* sum(utilization_percentage) / len(active), or 0.0; the set of the values
\* the rounding can give
AverageUtilization(active) ==
    IF active # {} THEN RoundMean(SumUtilization(active), Cardinality(active)) ELSE {0}

\* the aggregation of compute_factory_metrics over the rows its queries
\* returned: the records it can return
FactoryOf(evs, worker_metrics, station_metrics) ==
    LET total_production == TotalUnits(evs)
        total_productive_time == CountOfType(evs, "working") * EVENT_DURATION_MINUTES
        total_idle_time == CountOfType(evs, "idle") * EVENT_DURATION_MINUTES
        active_workers == ActiveOf(worker_metrics)
        active_stations == ActiveOf(station_metrics) IN
    {[total_productive_time_minutes |-> total_productive_time,
      total_idle_time_minutes |-> total_idle_time,
      total_production_count |-> total_production,
      average_production_rate |-> HourlyRate(total_production, total_productive_time),
      average_worker_utilization |-> wu,
      average_workstation_utilization |-> su,
      total_events |-> Cardinality(evs),
      active_workers |-> Cardinality(active_workers),
      active_workstations |-> Cardinality(active_stations)] :
        wu \in AverageUtilization(active_workers),
        su \in AverageUtilization(active_stations)}

\* compute_factory_metrics on one state of the tables: its three reads (the
\* events, the workers' records, the workstations' records) see the same rows
compute_factory_metrics(rows, ws, ss, start_time, end_time) ==
    FactoryOf(EventsInWindow(rows, start_time, end_time),
              compute_worker_metrics(rows, ws, NoId, start_time, end_time),
              compute_workstation_metrics(rows, ss, NoId, start_time, end_time))

\* get_dashboard_summary: the summaries it can return
get_dashboard_summary(rows, ws, ss, start_time, end_time, t) ==
    {[factory_metrics |-> f,
      worker_metrics |-> compute_worker_metrics(rows, ws, NoId, start_time, end_time),
      workstation_metrics |->
            compute_workstation_metrics(rows, ss, NoId, start_time, end_time),
      last_updated |-> t] :
        f \in compute_factory_metrics(rows, ws, ss, start_time, end_time)}

\* the record get_worker_metrics returns for an id that selects no worker
UnknownWorker(worker_id) ==
    [worker_id |-> worker_id, worker_name |-> "Unknown",
     total_active_time_minutes |-> 0, total_idle_time_minutes |-> 0,
     total_absent_time_minutes |-> 0, utilization_percentage |-> 0,
     total_units_produced |-> 0, units_per_hour |-> 0, event_count |-> 0]

\* (mutant) the fallback record carries the requested id as its name
UnknownStation_NoSentinel(station_id) ==
    [station_id |-> station_id, station_name |-> station_id, station_type |-> "None",
     occupancy_time_minutes |-> 0, working_time_minutes |-> 0, idle_time_minutes |-> 0,
     utilization_percentage |-> 0, total_units_produced |-> 0, throughput_rate |-> 0,
     event_count |-> 0]

\* the record get_workstation_metrics returns for an id that selects no station
UnknownStation(station_id) ==
    [station_id |-> station_id, station_name |-> "Unknown", station_type |-> "None",
     occupancy_time_minutes |-> 0, working_time_minutes |-> 0, idle_time_minutes |-> 0,
     utilization_percentage |-> 0, total_units_produced |-> 0, throughput_rate |-> 0,
     event_count |-> 0]

Query(kind, id, start_time, end_time) ==
    [kind |-> kind, id |-> id, start_time |-> start_time, end_time |-> end_time]

QueryResp(kind, id, start_time, end_time, result) ==
    [Resp(kind, 200, <<>>, events) EXCEPT
        !.query = Query(kind, id, start_time, end_time), !.result = result]

\* GET /metrics/dashboard
GetDashboard(start_time, end_time) ==
    /\ started /\ resp.op = "none"
    /\ \E d \in get_dashboard_summary(events, workers, stations, start_time, end_time, now) :
        resp' = QueryResp("get_dashboard", NoId, start_time, end_time, d)
    /\ UNCHANGED <<started, workers, stations, events, now, lock, req>>

\* GET /metrics/factory
GetFactoryMetrics(start_time, end_time) ==
    /\ started /\ resp.op = "none"
    /\ \E f \in compute_factory_metrics(events, workers, stations, start_time, end_time) :
        resp' = QueryResp("get_factory_metrics", NoId, start_time, end_time, f)
    /\ UNCHANGED <<started, workers, stations, events, now, lock, req>>

\* GET /metrics/workers
GetWorkersMetrics(start_time, end_time) ==
    /\ started /\ resp.op = "none"
    /\ resp' = QueryResp("get_workers_metrics", NoId, start_time, end_time,
                         compute_worker_metrics(events, workers, NoId, start_time, end_time))
    /\ UNCHANGED <<started, workers, stations, events, now, lock, req>>

\* (mutant) the query drops the stored events that lie outside its window
GetWorkerMetrics_Prunes(worker_id, start_time, end_time) ==
    /\ started /\ resp.op = "none"
    /\ LET metrics == compute_worker_metrics(events, workers, worker_id, start_time, end_time) IN
       resp' = QueryResp("get_worker_metrics", worker_id, start_time, end_time,
                         IF metrics = {} THEN UnknownWorker(worker_id)
                         ELSE CHOOSE m \in metrics : TRUE)
    /\ events' = EventsInWindow(events, start_time, end_time)
    /\ UNCHANGED <<started, workers, stations, now, lock, req>>

\* GET /metrics/workers/{worker_id}
GetWorkerMetrics(worker_id, start_time, end_time) ==
    /\ started /\ resp.op = "none"
    /\ LET metrics == compute_worker_metrics(events, workers, worker_id, start_time, end_time) IN
       resp' = QueryResp("get_worker_metrics", worker_id, start_time, end_time,
                         IF metrics = {} THEN UnknownWorker(worker_id)
                         ELSE CHOOSE m \in metrics : TRUE)
    /\ UNCHANGED <<started, workers, stations, events, now, lock, req>>

\* GET /metrics/workstations
GetWorkstationsMetrics(start_time, end_time) ==
    /\ started /\ resp.op = "none"
    /\ resp' = QueryResp("get_workstations_metrics", NoId, start_time, end_time,
                         compute_workstation_metrics(events, stations, NoId,
                                                     start_time, end_time))
    /\ UNCHANGED <<started, workers, stations, events, now, lock, req>>

\* GET /metrics/workstations/{station_id}
GetWorkstationMetrics(station_id, start_time, end_time) ==
    /\ started /\ resp.op = "none"
    /\ LET metrics == compute_workstation_metrics(events, stations, station_id,
                                                  start_time, end_time) IN
       resp' = QueryResp("get_workstation_metrics", station_id, start_time, end_time,
                         IF metrics = {} THEN UnknownStation(station_id)
                         ELSE CHOOSE m \in metrics : TRUE)
    /\ UNCHANGED <<started, workers, stations, events, now, lock, req>>

----------------------------------------------------------------------------
(* The metrics specification: the seeded database holding any part of a     *)
(* pool of events of two workers at two stations, at an instant after they  *)
(* were received; metrics queries for every window, single-event and batch  *)
(* ingestions and event resets                                              *)

Row(ts, w, s, ty, c, t) ==
    [timestamp |-> ts, worker_id |-> w, workstation_id |-> s, event_type |-> ty,
     confidence |-> 9, count |-> c, received_at |-> t]

\* stored events; each was received at an instant that is not its timestamp
MetricPool ==
    {Row(1, "W1", "S1", "working", 0, 2), Row(2, "W1", "S1", "working", 0, 1),
     Row(1, "W1", "S1", "idle", 0, 2), Row(2, "W1", "S1", "absent", 0, 1),
     Row(2, "W1", "S1", "product_count", 4, 1), Row(2, "W2", "S2", "idle", 0, 1),
     Row(1, "W2", "S1", "working", 0, 2), Row(1, "W2", "S2", "absent", 0, 2)}

\* events submitted while the queries run: two with keys that are not in the
\* pool, one with the key of a pool event and another payload, and one whose
\* body carries a received_at of its own (a field EventCreate does not have)
MetricItems ==
    {Item(1, "W1", "S1", "product_count", PayloadB),
     Item(1, "W2", "S2", "working", PayloadB),
     Item(1, "W1", "S1", "working", PayloadB),
     [received_at |-> 1] @@ Item(1, "W1", "S1", "product_count", PayloadB)}

\* batches of an event with a new key and an event with a stored key
MetricBatches ==
    UNION {[1..n -> {Item(1, "W1", "S1", "product_count", PayloadB),
                     Item(1, "W1", "S1", "working", PayloadB)}] : n \in 1..MaxBatch}

Bounds == {NoBound} \cup Times
QueryWorkerIds == {"W1", "W2", "W3", "W9"}
QueryStationIds == {"S1", "S2", "S3", "S9"}

InitMetrics ==
    /\ started = TRUE
    /\ workers = SAMPLE_WORKERS
    /\ stations = SAMPLE_WORKSTATIONS
    /\ events \in SUBSET MetricPool
    /\ now = MaxTime + 1
    /\ resp = NoResp
    /\ lock = 0
    /\ req = [p \in Slots |-> IdleReq]

NextMetrics ==
    \/ \E a \in Bounds : \E b \in Bounds : GetDashboard(a, b)
    \/ \E a \in Bounds : \E b \in Bounds : GetFactoryMetrics(a, b)
    \/ \E a \in Bounds : \E b \in Bounds : GetWorkersMetrics(a, b)
    \/ \E w \in QueryWorkerIds : \E a \in Bounds : \E b \in Bounds : GetWorkerMetrics(w, a, b)
    \/ \E a \in Bounds : \E b \in Bounds : GetWorkstationsMetrics(a, b)
    \/ \E s \in QueryStationIds : \E a \in Bounds : \E b \in Bounds :
            GetWorkstationMetrics(s, a, b)
    \/ \E item \in MetricItems : IngestEvent(item)
    \/ \E batch \in MetricBatches : IngestBatch(batch)
    \/ ClearEvents
    \/ Respond

SpecMetrics == InitMetrics /\ [][NextMetrics]_vars

\* The dashboard alone, with the ingestions and resets that change what it
\* shows, from stores of events of two workers at two workstations.
SummaryPool ==
    {Row(2, "W1", "S1", "product_count", 4, 1), Row(1, "W1", "S1", "idle", 0, 2),
     Row(1, "W2", "S1", "working", 0, 2), Row(2, "W2", "S2", "idle", 0, 1)}

InitSummary ==
    /\ started = TRUE
    /\ workers = SAMPLE_WORKERS
    /\ stations = SAMPLE_WORKSTATIONS
    /\ events \in SUBSET SummaryPool
    /\ now = MaxTime + 1
    /\ resp = NoResp
    /\ lock = 0
    /\ req = [p \in Slots |-> IdleReq]

NextSummary ==
    \/ \E a \in Bounds : \E b \in Bounds : GetDashboard(a, b)
    \/ \E item \in MetricItems : IngestEvent(item)
    \/ \E batch \in MetricBatches : IngestBatch(batch)
    \/ ClearEvents
    \/ Respond

SpecSummary == InitSummary /\ [][NextSummary]_vars

----------------------------------------------------------------------------
(* GET /metrics/dashboard running while other requests commit.  The handler
   issues one SELECT after the other on its session: the events of the
   window, then for compute_factory_metrics the events of each worker and of
   each workstation, then the same per-worker and per-workstation SELECTs
   again for the two lists.  No write precedes them, so the session holds no
   transaction over them and each SELECT sees the rows committed when it
   runs.  req holds the request's position and what it has read so far. *)

DashWorkers == <<"W1", "W2">>                       \* db.query(Worker).all()
DashStations == <<"S1", "S2">>                      \* db.query(Workstation).all()
DashWindows == {<<NoBound, NoBound>>, <<2, NoBound>>}

\* an event stored when the request starts, and an event submitted while it runs
DashPool == {Row(1, "W1", "S1", "working", 0, 2)}
DashItems == {Item(2, "W2", "S2", "working", PayloadB)}

DashIdle ==
    [pc |-> "idle", start_time |-> NoBound, end_time |-> NoBound,
     evs |-> {}, idx |-> 1, acc |-> {}, f_workers |-> {}, factory |-> <<>>,
     worker_metrics |-> {}, result |-> <<>>]

\* events_query.all() of compute_factory_metrics
DashStart(start_time, end_time) ==
    /\ started /\ req.pc = "idle"
    /\ req' = [DashIdle EXCEPT !.pc = "f_workers",
                               !.start_time = start_time, !.end_time = end_time,
                               !.evs = EventsInWindow(events, start_time, end_time)]
    /\ UNCHANGED <<started, workers, stations, events, now, resp, lock>>

\* one iteration of `for worker in workers`: the SELECT of the worker's events
\* and the worker's record
DashReadWorker ==
    /\ req.pc \in {"f_workers", "workers"}
    /\ LET acc == req.acc \cup {WorkerMetricsOf(DashWorkers[req.idx], events,
                                                 req.start_time, req.end_time)} IN
        req' = IF req.idx < Len(DashWorkers)
               THEN [req EXCEPT !.idx = @ + 1, !.acc = acc]
               ELSE IF req.pc = "f_workers"
               THEN [req EXCEPT !.pc = "f_stations", !.f_workers = acc,
                                !.idx = 1, !.acc = {}]
               ELSE [req EXCEPT !.pc = "stations", !.worker_metrics = acc,
                                !.idx = 1, !.acc = {}]
    /\ UNCHANGED <<started, workers, stations, events, now, resp, lock>>

\* one iteration of `for station in stations`; after the last one of
\* compute_factory_metrics the FactoryMetrics record is built and the second
\* compute_worker_metrics starts, after the last one of the second
\* compute_workstation_metrics the DashboardSummary is built
DashReadStation ==
    /\ req.pc \in {"f_stations", "stations"}
    /\ LET acc == req.acc \cup {StationMetricsOf(DashStations[req.idx], events,
                                                  req.start_time, req.end_time)} IN
        IF req.idx < Len(DashStations)
        THEN req' = [req EXCEPT !.idx = @ + 1, !.acc = acc]
        ELSE IF req.pc = "f_stations"
        THEN \E f \in FactoryOf(req.evs, req.f_workers, acc) :
                req' = [req EXCEPT !.pc = "workers", !.factory = f,
                                   !.idx = 1, !.acc = {}]
        ELSE req' = [req EXCEPT !.pc = "done", !.idx = 1, !.acc = {},
                                !.result = [factory_metrics |-> req.factory,
                                            worker_metrics |-> req.worker_metrics,
                                            workstation_metrics |-> acc,
                                            last_updated |-> now]]
    /\ UNCHANGED <<started, workers, stations, events, now, resp, lock>>

\* the summary is sent and the session closed
DashRespond ==
    /\ req.pc = "done"
    /\ req' = DashIdle
    /\ UNCHANGED <<started, workers, stations, events, now, resp, lock>>

InitDash ==
    /\ started = TRUE
    /\ workers = {DashWorkers[i] : i \in 1..Len(DashWorkers)}
    /\ stations = {DashStations[i] : i \in 1..Len(DashStations)}
    /\ events \in SUBSET DashPool
    /\ now = 3
    /\ resp = NoResp
    /\ lock = 0
    /\ req = DashIdle

NextDash ==
    \/ \E win \in DashWindows : DashStart(win[1], win[2])
    \/ DashReadWorker
    \/ DashReadStation
    \/ DashRespond
    \/ \E item \in DashItems : IngestEvent(item)
    \/ ClearEvents
    \/ Respond

SpecDash == InitDash /\ [][NextDash]_vars

----------------------------------------------------------------------------
(* POST /workers/ from two clients at once.  create_worker looks the
   worker_id up and, when it finds no row, adds one and commits; the lookup
   and the commit are separate statements, so another request can commit
   between them.  The INSERT of the commit then fails on the unique index of
   workers.worker_id; the handler has no except clause for it, so the
   IntegrityError leaves the handler and the client gets the server's
   answer to an unhandled exception, 500. *)

NewWorkerIds == {"W1", "W7", "W8"}                  \* worker_id of the requests: one registered, two new

RegIdle == [pc |-> "idle", worker_id |-> NoId, existing |-> FALSE, status |-> 0]

\* a request arrives
RegSubmit(p, w) ==
    /\ started /\ req[p].pc = "idle"
    /\ req' = [req EXCEPT ![p] = [RegIdle EXCEPT !.pc = "check", !.worker_id = w]]
    /\ UNCHANGED <<started, workers, stations, events, now, resp, lock>>

\* existing = db.query(Worker).filter(...).first(); if existing: raise 409
RegCheck(p) ==
    /\ req[p].pc = "check"
    /\ req' = [req EXCEPT ![p] =
                IF req[p].worker_id \in workers
                THEN [@ EXCEPT !.pc = "done", !.existing = TRUE, !.status = 409]
                ELSE [@ EXCEPT !.pc = "commit"]]
    /\ UNCHANGED <<started, workers, stations, events, now, resp, lock>>

\* db.add(db_worker); db.commit(): the INSERT succeeds (201) or violates the
\* unique index, and the IntegrityError is not caught (500)
RegCommit(p) ==
    /\ req[p].pc = "commit"
    /\ IF req[p].worker_id \in workers
       THEN /\ workers' = workers
            /\ req' = [req EXCEPT ![p] = [@ EXCEPT !.pc = "done", !.status = 500]]
       ELSE /\ workers' = workers \cup {req[p].worker_id}
            /\ req' = [req EXCEPT ![p] = [@ EXCEPT !.pc = "done", !.status = 201]]
    /\ UNCHANGED <<started, stations, events, now, resp, lock>>

\* the client takes the answer
RegRespond(p) ==
    /\ req[p].pc = "done"
    /\ req' = [req EXCEPT ![p] = RegIdle]
    /\ UNCHANGED <<started, workers, stations, events, now, resp, lock>>

InitReg ==
    /\ started = TRUE
    /\ workers = SAMPLE_WORKERS
    /\ stations = SAMPLE_WORKSTATIONS
    /\ events = {}
    /\ now = 1
    /\ resp = NoResp
    /\ lock = 0
    /\ req = [p \in Slots |-> RegIdle]

NextReg ==
    \/ \E p \in Slots : \E w \in NewWorkerIds : RegSubmit(p, w)
    \/ \E p \in Slots : RegCheck(p)
    \/ \E p \in Slots : RegCommit(p)
    \/ \E p \in Slots : RegRespond(p)

SpecReg == InitReg /\ [][NextReg]_vars

----------------------------------------------------------------------------
(* Properties of ingestion: vocabulary *)

Keys(rows) == {Key(e) : e \in rows}
RowsWithKey(rows, k) == {e \in rows : Key(e) = k}
RefsKnown(item) == item.worker_id \in workers /\ item.workstation_id \in stations
StateTypes == {"working", "idle", "absent"}
IngestOps == {"ingest_event", "ingest_batch"}

\* item i of the batch is the first of the batch to carry its key
FirstOfKey(batch, i) == \A j \in 1..(i - 1) : Key(batch[j]) # Key(batch[i])
\* the positions of the batch that carry key k
Carriers(batch, k) == {i \in 1..Len(batch) : Key(batch[i]) = k}

\* C1: no two stored events have the same (timestamp, worker_id,
\* workstation_id, event_type), whatever their confidence, count or arrival
\* order, in every state reached by ingestions, generation and resets.
C1_UniqueKey ==
    \A e \in events : \A f \in events : Key(e) = Key(f) => e = f

\* a single-event call was refused as a duplicate of a stored row that has
\* another count, while the store holds several rows
C1_Witness ==
    /\ resp.op = "ingest_event" /\ resp.status = 409
    /\ Cardinality(events) >= 2
    /\ \E e \in events : /\ Key(e) = Key(resp.batch[1])
                         /\ e.count # resp.batch[1].count

\* C2: submitting the same key twice (single call then batch, batch then
\* single call, or twice within one batch) leaves exactly one stored row for
\* the key and gives exactly one duplicate outcome (409 or duplicate-counted).
C2_Idempotent ==
    /\ (resp.op = "ingest_event" /\ SchemaValid(resp.batch[1])
            /\ RefsKnown(resp.batch[1]) /\ Key(resp.batch[1]) \in Keys(resp.before))
        => /\ resp.status = 409
           /\ Cardinality(RowsWithKey(events, Key(resp.batch[1]))) = 1
    /\ (resp.op = "ingest_batch" /\ resp.status = 200)
        => \A i \in 1..Len(resp.batch) :
            LET k == Key(resp.batch[i]) IN
            /\ (RefsKnown(resp.batch[i]) /\ Carriers(resp.batch, k) = {i}
                    /\ k \in Keys(resp.before))
                => /\ resp.outcome[i] = "duplicate"
                   /\ Cardinality(RowsWithKey(events, k)) = 1
            /\ \A j \in (i + 1)..Len(resp.batch) :
                (RefsKnown(resp.batch[i]) /\ Carriers(resp.batch, k) = {i, j}
                    /\ k \notin Keys(resp.before))
                => /\ resp.outcome[i] = "stored"
                   /\ resp.outcome[j] = "duplicate"
                   /\ Cardinality(RowsWithKey(events, k)) = 1

\* C3: after a schema-valid batch, every item with known references whose key
\* was not stored before and is carried by no earlier item of the batch is in
\* the store, whatever the other items of the batch are.
C3_NoBadApple ==
    (resp.op = "ingest_batch" /\ resp.status = 200)
        => \A i \in 1..Len(resp.batch) :
            (RefsKnown(resp.batch[i]) /\ Key(resp.batch[i]) \notin Keys(resp.before)
                /\ FirstOfKey(resp.batch, i))
            => Key(resp.batch[i]) \in Keys(events)

\* C4: the batch result's successfully_stored is the number of rows the call
\* added to the store, and duplicates_skipped the number of items that
\* collided with the uniqueness constraint.
C4_CountsMatchStore ==
    (resp.op = "ingest_batch" /\ resp.status = 200)
        => /\ resp.successfully_stored = Cardinality(events \ resp.before)
           /\ resp.duplicates_skipped =
                Cardinality({i \in 1..Len(resp.outcome) : resp.outcome[i] = "duplicate"})

\* C5: a batch with a malformed item (event_type outside the enumeration)
\* still stores every other valid, non-duplicate item, and its counts satisfy
\* successfully_stored + duplicates_skipped <= total_received.
C5_MalformedItemIsolated ==
    (resp.op = "ingest_batch" /\ Len(resp.batch) >= BatchMinLen
        /\ \E k \in 1..Len(resp.batch) : resp.batch[k].event_type \notin allowed_types)
        => /\ resp.successfully_stored + resp.duplicates_skipped <= resp.total_received
           /\ \A i \in 1..Len(resp.batch) :
                (SchemaValid(resp.batch[i]) /\ RefsKnown(resp.batch[i])
                    /\ Key(resp.batch[i]) \notin Keys(resp.before)
                    /\ FirstOfKey(resp.batch, i))
                => Key(resp.batch[i]) \in Keys(events)

\* C6: a single or batch ingestion call stores no event whose worker_id or
\* workstation_id is unregistered when the call runs, and leaves the sets of
\* workers and workstations as they were.
C6_UnknownRefsNeverStored ==
    [][(resp.op = "none" /\ resp'.op \in IngestOps)
        => /\ workers' = workers
           /\ stations' = stations
           /\ \A e \in events' \ events :
                e.worker_id \in workers /\ e.workstation_id \in stations]_vars

\* a batch naming an unregistered identifier has stored another of its items
C6_Witness ==
    /\ resp.op = "ingest_batch" /\ resp.status = 200
    /\ \E i \in 1..Len(resp.batch) : ~RefsKnown(resp.batch[i])
    /\ events # resp.before

\* C7: a single-event call ends in exactly one of stored (201), duplicate
\* conflict (409), reference error (400), validation error (422); an unknown
\* worker or workstation gives 400 and a key collision 409; every outcome but
\* stored leaves the event store as it was, and stored adds exactly one row.
C7_SingleOutcome ==
    resp.op = "ingest_event"
        => LET item == resp.batch[1] IN
           /\ resp.status \in {201, 409, 400, 422}
           /\ ~SchemaValid(item) => resp.status = 422
           /\ (SchemaValid(item) /\ ~RefsKnown(item)) => resp.status = 400
           /\ (SchemaValid(item) /\ RefsKnown(item) /\ Key(item) \in Keys(resp.before))
                => resp.status = 409
           /\ resp.status # 201 => events = resp.before
           /\ resp.status = 201
                => /\ resp.before \subseteq events
                   /\ Cardinality(events \ resp.before) = 1
                   /\ Keys(events \ resp.before) = {Key(item)}
                   /\ Key(item) \notin Keys(resp.before)

\* a single-event call was refused with 409 and the stored row is still there
C7_Witness ==
    /\ resp.op = "ingest_event" /\ resp.status = 409
    /\ events = resp.before
    /\ Key(resp.batch[1]) \in Keys(events)

\* C9: every stored working, idle or absent event has count 0, also when it
\* was submitted with another count.
C9_StateEventsCountZero ==
    \A e \in events : e.event_type \in StateTypes => e.count = 0

\* the positions of the batch whose references are unknown, and how many of
\* them come before position i
Failing(batch) == {i \in 1..Len(batch) : ~RefsKnown(batch[i])}
FailingBefore(batch, i) == Cardinality({j \in Failing(batch) : j < i})
Diagnostic(item) ==
    IF item.worker_id \notin workers
    THEN <<"Unknown worker_id", item.worker_id>>
    ELSE <<"Unknown workstation_id", item.workstation_id>>

\* C10: the diagnostics list holds the messages of the first 10 reference
\* failures in batch order and no more; items after the 10th failing item are
\* still attempted: a valid non-duplicate item that follows more than 10
\* unknown-reference items is stored and counted.
C10_DiagnosticsCapped ==
    (resp.op = "ingest_batch" /\ resp.status = 200)
        => /\ Len(resp.errors) = Min(Cardinality(Failing(resp.batch)), ErrCap)
           /\ \A i \in Failing(resp.batch) :
                FailingBefore(resp.batch, i) < ErrCap
                => resp.errors[FailingBefore(resp.batch, i) + 1] = Diagnostic(resp.batch[i])
           /\ \A i \in 1..Len(resp.batch) :
                (RefsKnown(resp.batch[i]) /\ FailingBefore(resp.batch, i) > ErrCap
                    /\ Key(resp.batch[i]) \notin Keys(resp.before)
                    /\ FirstOfKey(resp.batch, i))
                => /\ resp.outcome[i] = "stored"
                   /\ Key(resp.batch[i]) \in Keys(events)

\* how the request of slot p ended for the item at position i
ItemOutcome(p, i) ==
    IF req[p].kind = "batch" THEN req[p].st.outcome[i]
    ELSE IF req[p].status = 201 THEN "stored"
    ELSE IF req[p].status = 409 THEN "duplicate"
    ELSE "rejected"

OutcomesOf(k, what) ==
    {<<p, i>> \in Slots \X (1..MaxConcBatch) :
        /\ i <= Len(req[p].items)
        /\ Key(req[p].items[i]) = k
        /\ ItemOutcome(p, i) = what}

\* C8: two ingestion attempts in different requests that carry the same key,
\* not stored before, end in exactly one success and one duplicate outcome,
\* with exactly one row of that key in the store, under every interleaving.
C8_ConcurrentSameKey ==
    (\A p \in Slots : req[p].pc = "done")
        => \A k \in Keys(ConcItems) :
            (/\ k \notin Keys(PreStored)
             /\ k[2] \in workers /\ k[3] \in stations
             /\ \A p \in Slots : Cardinality(Carriers(req[p].items, k)) = 1)
            => /\ Cardinality(OutcomesOf(k, "stored")) = 1
               /\ Cardinality(OutcomesOf(k, "duplicate")) = 1
               /\ Cardinality(RowsWithKey(events, k)) = 1

----------------------------------------------------------------------------
(* Properties of the metrics engine: vocabulary *)

QueryOps ==
    {"get_dashboard", "get_factory_metrics", "get_workers_metrics", "get_worker_metrics",
     "get_workstations_metrics", "get_workstation_metrics"}

\* the worker, workstation and factory records a response carries
WorkerRecords(r) ==
    IF r.op = "get_workers_metrics" THEN r.result
    ELSE IF r.op = "get_worker_metrics" THEN {r.result}
    ELSE IF r.op = "get_dashboard" THEN r.result.worker_metrics
    ELSE {}

StationRecords(r) ==
    IF r.op = "get_workstations_metrics" THEN r.result
    ELSE IF r.op = "get_workstation_metrics" THEN {r.result}
    ELSE IF r.op = "get_dashboard" THEN r.result.workstation_metrics
    ELSE {}

FactoryRecords(r) ==
    IF r.op = "get_factory_metrics" THEN {r.result}
    ELSE IF r.op = "get_dashboard" THEN {r.result.factory_metrics}
    ELSE {}

\* start_time <= timestamp <= end_time, a missing bound being no bound
InWindow(e, q) ==
    /\ (q.start_time = NoBound \/ q.start_time <= e.timestamp)
    /\ (q.end_time = NoBound \/ e.timestamp <= q.end_time)

OfType(rows, ty) == {e \in rows : e.event_type = ty}
OfWorker(rows, w) == {e \in rows : e.worker_id = w}
OfStation(rows, s) == {e \in rows : e.workstation_id = s}

RECURSIVE Units(_)
Units(rows) ==
    IF rows = {} THEN 0
    ELSE LET e == CHOOSE x \in rows : TRUE IN e.count + Units(rows \ {e})

\* C11: a metrics query (per-worker, per-workstation, factory, dashboard), for
\* any window and any entity filter including an unknown id, leaves the
\* stored events, the workers and the workstations as they were.
C11_QueriesReadOnly ==
    [][(resp.op = "none" /\ resp'.op \in QueryOps)
        => /\ events' = events
           /\ workers' = workers
           /\ stations' = stations]_vars

\* a query for an unregistered worker with a window that leaves stored events
\* out has been answered, and the events are still stored
C11_Witness ==
    /\ resp.op = "get_worker_metrics" /\ resp.query.id \notin workers
    /\ resp.query.start_time # NoBound
    /\ \E e \in events : ~InWindow(e, resp.query)
    /\ events = resp.before

\* C12: with bounds start_time and/or end_time, an event contributes to the
\* worker, workstation and factory aggregates exactly when
\* start_time <= timestamp <= end_time (a missing bound is no bound): every
\* record counts all events of its entity inside the window, and the events
\* outside contribute nothing, whatever their received_at.
C12_Windowing ==
    resp.op \in QueryOps
        => LET q == resp.query
               inside == {e \in resp.before : InWindow(e, q)} IN
           /\ \A m \in WorkerRecords(resp) :
                /\ m.event_count = Cardinality(OfWorker(inside, m.worker_id))
                /\ m.total_active_time_minutes + m.total_idle_time_minutes
                        + m.total_absent_time_minutes =
                    EVENT_DURATION_MINUTES *
                        Cardinality(OfWorker(inside, m.worker_id)
                                        \ OfType(inside, "product_count"))
                /\ m.total_units_produced =
                    Units(OfType(OfWorker(inside, m.worker_id), "product_count"))
           /\ \A m \in StationRecords(resp) :
                /\ m.event_count = Cardinality(OfStation(inside, m.station_id))
                /\ m.occupancy_time_minutes =
                    EVENT_DURATION_MINUTES *
                        Cardinality(OfStation(inside, m.station_id)
                            \ (OfType(inside, "product_count") \cup OfType(inside, "absent")))
                /\ m.total_units_produced =
                    Units(OfType(OfStation(inside, m.station_id), "product_count"))
           /\ \A f \in FactoryRecords(resp) :
                /\ f.total_events = Cardinality(inside)
                /\ f.total_productive_time_minutes + f.total_idle_time_minutes =
                    EVENT_DURATION_MINUTES *
                        Cardinality(OfType(inside, "working") \cup OfType(inside, "idle"))
                /\ f.total_production_count = Units(OfType(inside, "product_count"))

\* a factory query over a window of one instant was answered from a store
\* holding an event inside it and an event with an earlier timestamp that was
\* received inside it
C12_Witness ==
    /\ resp.op = "get_factory_metrics"
    /\ resp.query.start_time # NoBound /\ resp.query.end_time = resp.query.start_time
    /\ \E e \in resp.before :
            e.timestamp < resp.query.start_time /\ e.received_at = resp.query.start_time
    /\ \E e \in resp.before : e.timestamp = resp.query.start_time
    /\ resp.result.total_events >= 1
    /\ resp.result.total_events < Cardinality(resp.before)

\* u is a rounding to the nearest of num / den
Nearest(u, num, den) ==
    /\ 2 * (u * den - num) <= den
    /\ 2 * (num - u * den) <= den

\* events of worker w (at station "S1") for a scenario: nw working events,
\* ni idle events and one product_count event for each count of units
ScenarioStore(w, nw, ni, units) ==
    {Row(ts, w, "S1", "working", 0, 0) : ts \in 1..nw}
    \cup {Row(ts, w, "S1", "idle", 0, 0) : ts \in 1..ni}
    \cup {Row(i, w, "S1", "product_count", units[i], 0) : i \in 1..Len(units)}

\* C13: worker utilization is active / (active + idle) x 100 with
\* active = working_count x D and idle = idle_count x D over the worker's
\* events in the window, and 0 when active + idle = 0; absent events never
\* enter the denominator, so a worker or workstation with only absent events
\* has utilization 0.0; with D = 5, 10 working and 5 idle events give 50.0
\* active minutes, 25.0 idle minutes and 66.67 percent.
C13_WorkerUtilization ==
    /\ resp.op \in QueryOps
        => LET inside == {e \in resp.before : InWindow(e, resp.query)} IN
           /\ \A m \in WorkerRecords(resp) :
                LET mine == OfWorker(inside, m.worker_id)
                    active == Cardinality(OfType(mine, "working")) * EVENT_DURATION_MINUTES
                    idle == Cardinality(OfType(mine, "idle")) * EVENT_DURATION_MINUTES IN
                /\ m.total_active_time_minutes = active
                /\ m.total_idle_time_minutes = idle
                /\ m.total_absent_time_minutes =
                    Cardinality(OfType(mine, "absent")) * EVENT_DURATION_MINUTES
                /\ IF active + idle = 0 THEN m.utilization_percentage = 0
                   ELSE Nearest(m.utilization_percentage, active * 100 * 100, active + idle)
           /\ \A m \in StationRecords(resp) :
                OfStation(inside, m.station_id) \subseteq OfType(inside, "absent")
                    => m.utilization_percentage = 0
    /\ LET m == WorkerMetricsOf("W1", ScenarioStore("W1", 10, 5, <<>>), NoBound, NoBound) IN
        /\ EVENT_DURATION_MINUTES = 5
            => /\ m.total_active_time_minutes = 50
               /\ m.total_idle_time_minutes = 25
               /\ m.utilization_percentage = 6667

\* the workers were listed with one at 66.67 percent and another that has
\* only absent events in the window
C13_Witness ==
    /\ resp.op = "get_workers_metrics"
    /\ \E m \in resp.result : m.utilization_percentage = 6667
    /\ \E m \in resp.result :
        /\ m.total_absent_time_minutes > 0
        /\ m.total_active_time_minutes + m.total_idle_time_minutes = 0
        /\ m.utilization_percentage = 0

\* C14: worker units_per_hour is total_units / (active / 60), total_units
\* being the sum of count over the worker's product_count events in the
\* window, and is 0 whenever active = 0, even if total_units > 0; 50 active
\* minutes with counts 3 and 4 give 8.4.
C14_UnitsPerHour ==
    /\ resp.op \in QueryOps
        => LET inside == {e \in resp.before : InWindow(e, resp.query)} IN
           \A m \in WorkerRecords(resp) :
                LET mine == OfWorker(inside, m.worker_id)
                    active == Cardinality(OfType(mine, "working")) * EVENT_DURATION_MINUTES
                    total_units == Units(OfType(mine, "product_count")) IN
                /\ m.total_units_produced = total_units
                /\ IF active = 0 THEN m.units_per_hour = 0
                   ELSE Nearest(m.units_per_hour, total_units * 60 * 100, active)
    /\ LET m == WorkerMetricsOf("W1", ScenarioStore("W1", 10, 0, <<3, 4>>),
                                NoBound, NoBound) IN
        EVENT_DURATION_MINUTES = 5
            => /\ m.total_active_time_minutes = 50
               /\ m.total_units_produced = 7
               /\ m.units_per_hour = 840

\* a worker with units produced and no working event in the window was
\* reported with 0 units per hour
C14_Witness ==
    /\ resp.op = "get_worker_metrics"
    /\ resp.result.total_units_produced > 0
    /\ resp.result.total_active_time_minutes = 0
    /\ resp.result.units_per_hour = 0

\* C15: for every workstation and window, occupancy_time_minutes =
\* working_time_minutes + idle_time_minutes, utilization is
\* working / occupancy x 100 and throughput_rate is
\* total_units / (occupancy / 60); both are 0 when occupancy is 0.
C15_Workstation ==
    resp.op \in QueryOps
        => LET inside == {e \in resp.before : InWindow(e, resp.query)} IN
           \A m \in StationRecords(resp) :
                LET mine == OfStation(inside, m.station_id)
                    working == Cardinality(OfType(mine, "working")) * EVENT_DURATION_MINUTES
                    idle == Cardinality(OfType(mine, "idle")) * EVENT_DURATION_MINUTES
                    total_units == Units(OfType(mine, "product_count")) IN
                /\ m.working_time_minutes = working
                /\ m.idle_time_minutes = idle
                /\ m.occupancy_time_minutes = m.working_time_minutes + m.idle_time_minutes
                /\ m.total_units_produced = total_units
                /\ IF m.occupancy_time_minutes = 0
                   THEN m.utilization_percentage = 0 /\ m.throughput_rate = 0
                   ELSE /\ Nearest(m.utilization_percentage, working * 100 * 100,
                                   m.occupancy_time_minutes)
                        /\ Nearest(m.throughput_rate, total_units * 60 * 100,
                                   m.occupancy_time_minutes)

\* a workstation with working time, no idle time and units produced was
\* reported, and so was one with no occupancy and events
C15_Witness ==
    /\ resp.op = "get_workstations_metrics"
    /\ \E m \in resp.result :
        /\ m.working_time_minutes > 0 /\ m.idle_time_minutes = 0
        /\ m.total_units_produced > 0 /\ m.throughput_rate > 0
    /\ \E m \in resp.result : m.occupancy_time_minutes = 0 /\ m.event_count > 0

\* the utilization_percentage reported in window q for the registered workers
\* and workstations that have an event in it
ActiveWorkerUtil(rows, q) ==
    [w \in {x \in workers : \E e \in rows : InWindow(e, q) /\ e.worker_id = x} |->
        WorkerMetricsOf(w, rows, q.start_time, q.end_time).utilization_percentage]

ActiveStationUtil(rows, q) ==
    [x \in {y \in stations : \E e \in rows : InWindow(e, q) /\ e.workstation_id = y} |->
        StationMetricsOf(x, rows, q.start_time, q.end_time).utilization_percentage]

RECURSIVE SumOver(_, _)
SumOver(f, S) ==
    IF S = {} THEN 0
    ELSE LET x == CHOOSE y \in S : TRUE IN f[x] + SumOver(f, S \ {x})

\* avg is the mean of the values of f rounded to the nearest, 0 when f is empty
IsMean(avg, f) ==
    IF DOMAIN f = {} THEN avg = 0
    ELSE Nearest(avg, SumOver(f, DOMAIN f), Cardinality(DOMAIN f))

C17_FactoryTotals ==
    resp.op \in QueryOps
        => LET inside == {e \in resp.before : InWindow(e, resp.query)} IN
           \A f \in FactoryRecords(resp) :
            /\ f.total_productive_time_minutes =
                Cardinality(OfType(inside, "working")) * EVENT_DURATION_MINUTES
            /\ f.total_idle_time_minutes =
                Cardinality(OfType(inside, "idle")) * EVENT_DURATION_MINUTES
            /\ f.total_production_count = Units(OfType(inside, "product_count"))
            /\ IF f.total_productive_time_minutes = 0
               THEN f.average_production_rate = 0
               ELSE Nearest(f.average_production_rate, f.total_production_count * 60 * 100,
                            f.total_productive_time_minutes)

\* the dashboard was reported for a window holding working events of two
\* workers, idle events and product_count events
C17_Witness ==
    /\ resp.op = "get_dashboard"
    /\ resp.result.factory_metrics.total_productive_time_minutes
            >= 2 * EVENT_DURATION_MINUTES
    /\ resp.result.factory_metrics.total_idle_time_minutes > 0
    /\ resp.result.factory_metrics.total_production_count > 0
    /\ resp.result.factory_metrics.average_production_rate > 0
    /\ resp.result.factory_metrics.active_workers = 2

WorkerZero(m) ==
    /\ m.total_active_time_minutes = 0 /\ m.total_idle_time_minutes = 0
    /\ m.total_absent_time_minutes = 0 /\ m.utilization_percentage = 0
    /\ m.total_units_produced = 0 /\ m.units_per_hour = 0 /\ m.event_count = 0

StationZero(m) ==
    /\ m.occupancy_time_minutes = 0 /\ m.working_time_minutes = 0
    /\ m.idle_time_minutes = 0 /\ m.utilization_percentage = 0
    /\ m.total_units_produced = 0 /\ m.throughput_rate = 0 /\ m.event_count = 0

\* C18: a per-entity query for a registered worker or workstation with no
\* events in the window returns a record with its real name and all numeric
\* fields zero; a query for an unregistered id returns a record with that id,
\* the name "Unknown" and all numeric fields zero; neither is an error.
C18_MissingData ==
    /\ resp.op = "get_worker_metrics"
        => LET q == resp.query
               m == resp.result IN
           /\ resp.status = 200
           /\ m.worker_id = q.id
           /\ q.id \notin workers => m.worker_name = "Unknown" /\ WorkerZero(m)
           /\ q.id \in workers => m.worker_name = WorkerName[q.id]
           /\ (\A e \in resp.before : InWindow(e, q) => e.worker_id # q.id) => WorkerZero(m)
    /\ resp.op = "get_workstation_metrics"
        => LET q == resp.query
               m == resp.result IN
           /\ resp.status = 200
           /\ m.station_id = q.id
           /\ q.id \notin stations => m.station_name = "Unknown" /\ StationZero(m)
           /\ q.id \in stations => m.station_name = StationName[q.id]
           /\ (\A e \in resp.before : InWindow(e, q) => e.workstation_id # q.id)
                => StationZero(m)

\* an unregistered workstation was asked for while events are stored
C18_Witness ==
    /\ resp.op = "get_workstation_metrics" /\ resp.query.id \notin stations
    /\ resp.result.station_name = "Unknown"
    /\ resp.before # {}

\* a registered worker whose events all lie outside the window was asked for
C18_WitnessKnown ==
    /\ resp.op = "get_worker_metrics" /\ resp.query.id \in workers
    /\ \E e \in resp.before : e.worker_id = resp.query.id
    /\ resp.result.event_count = 0

\* the times and the units of every worker, workstation and factory record,
\* for every window
TimeView(rows) ==
    [a \in Bounds, b \in Bounds |->
        <<{<<m.worker_id, m.total_active_time_minutes, m.total_idle_time_minutes,
             m.total_absent_time_minutes>> :
                m \in compute_worker_metrics(rows, SAMPLE_WORKERS, NoId, a, b)},
          {<<m.station_id, m.occupancy_time_minutes, m.working_time_minutes,
             m.idle_time_minutes>> :
                m \in compute_workstation_metrics(rows, SAMPLE_WORKSTATIONS, NoId, a, b)},
          {<<f.total_productive_time_minutes, f.total_idle_time_minutes>> :
                f \in compute_factory_metrics(rows, SAMPLE_WORKERS, SAMPLE_WORKSTATIONS,
                                              a, b)}>>]

UnitView(rows) ==
    [a \in Bounds, b \in Bounds |->
        <<{<<m.worker_id, m.total_units_produced>> :
                m \in compute_worker_metrics(rows, SAMPLE_WORKERS, NoId, a, b)},
          {<<m.station_id, m.total_units_produced>> :
                m \in compute_workstation_metrics(rows, SAMPLE_WORKSTATIONS, NoId, a, b)},
          {f.total_production_count :
                f \in compute_factory_metrics(rows, SAMPLE_WORKERS, SAMPLE_WORKSTATIONS,
                                              a, b)}>>]

\* C19: adding product_count events changes no active, idle, absent,
\* occupancy or productive time in any metric, and adding working, idle or
\* absent events changes no total_units_produced / total_production_count,
\* whatever count they are stored with.
C19_ProductCountNotTimeBearing ==
    [][(events \subseteq events' /\ events' # events)
        => /\ (\A e \in events' \ events : e.event_type = "product_count")
                => TimeView(events') = TimeView(events)
           /\ (\A e \in events' \ events : e.event_type \in StateTypes)
                => UnitView(events') = UnitView(events)]_vars

\* a working event was stored with a count that is not 0, next to a stored
\* product_count event and a stored working event
C19_Witness ==
    /\ resp.op = "ingest_event" /\ resp.status = 201
    /\ \E e \in events \ resp.before : e.event_type = "working" /\ e.count > 0
    /\ \E e \in resp.before : e.event_type = "product_count"
    /\ \E e \in resp.before : e.event_type = "working"

\* a product_count event was stored next to stored working and idle events
C19_WitnessProduct ==
    /\ resp.op = "ingest_event" /\ resp.status = 201
    /\ \E e \in events \ resp.before : e.event_type = "product_count" /\ e.count > 0
    /\ \E e \in resp.before : e.event_type = "working"
    /\ \E e \in resp.before : e.event_type = "idle"

\* item i of the response's call was given a stored outcome
StoredOutcome(r, i) ==
    IF r.op = "ingest_event" THEN r.status = 201
    ELSE r.status = 200 /\ r.outcome[i] = "stored"

\* C20: a metrics query that starts after an ingestion call has returned a
\* stored outcome reflects that event, and one that starts after an event
\* reset reflects none of the deleted events: every event given a stored
\* outcome is committed when its call returns, a reset leaves no event, no
\* step but an ingestion or a reset changes the stored events, and every
\* query counts exactly the events that are stored and in its window when it
\* runs.
C20_NoStaleness ==
    [][/\ (resp.op = "none" /\ resp'.op \in IngestOps)
            => /\ events \subseteq events'
               /\ \A i \in 1..Len(resp'.batch) :
                    StoredOutcome(resp', i) => Key(resp'.batch[i]) \in Keys(events')
       /\ (resp.op = "none" /\ resp'.op = "clear_events") => events' = {}
       /\ (resp'.op \notin IngestOps \cup {"clear_events"}) => events' = events
       /\ (resp.op = "none" /\ resp'.op \in QueryOps)
            => LET inside == {e \in events : InWindow(e, resp'.query)} IN
               /\ \A f \in FactoryRecords(resp') : f.total_events = Cardinality(inside)
               /\ \A m \in WorkerRecords(resp') :
                    m.event_count = Cardinality(OfWorker(inside, m.worker_id))
               /\ \A m \in StationRecords(resp') :
                    m.event_count = Cardinality(OfStation(inside, m.station_id))]_vars

\* the store with the confidence and the received_at of every event erased
Canon(rows) == {[e EXCEPT !.confidence = 0, !.received_at = 0] : e \in rows}

\* C21: two stores whose events agree on (timestamp, worker_id,
\* workstation_id, event_type, count) and differ in confidence and received_at
\* give identical worker, workstation and factory metrics for every window:
\* every answer is the one computed from the store with both fields erased;
\* and received_at is never taken from the caller's input: a stored row
\* carries the arrival instant of its call.
C21_OnlySemanticFields ==
    /\ resp.op \in QueryOps
        => LET q == resp.query
               canon == Canon(resp.before) IN
           /\ \A m \in WorkerRecords(resp) :
                \/ m \in compute_worker_metrics(canon, workers, NoId,
                                                q.start_time, q.end_time)
                \/ m.worker_id \notin workers
           /\ \A m \in StationRecords(resp) :
                \/ m \in compute_workstation_metrics(canon, stations, NoId,
                                                     q.start_time, q.end_time)
                \/ m.station_id \notin stations
           /\ \A f \in FactoryRecords(resp) :
                f \in compute_factory_metrics(canon, workers, stations,
                                              q.start_time, q.end_time)
    /\ resp.op \in IngestOps
        => \A e \in events \ resp.before : e.received_at = now

\* the dashboard was answered from a store whose events differ in confidence
\* and in received_at, one of them stored by a call whose received_at is the
\* current instant
C21_Witness ==
    /\ resp.op = "get_dashboard"
    /\ \E e \in resp.before : \E f \in resp.before :
        /\ e.confidence # f.confidence
        /\ e.received_at # f.received_at
        /\ e.received_at = now
    /\ resp.result.factory_metrics.total_events >= 2

\* the row that stores item, whatever its received_at
StoresItem(e, item) ==
    /\ Key(e) = Key(item)
    /\ e.confidence = item.confidence
    /\ e.count = item.count

\* C22: once an ingestion call has reported an event as stored, its row with
\* all its field values is in the store, and every later operation but a bulk
\* delete of the events (further single or batch ingestions, duplicate
\* submissions, metrics queries) keeps every stored row as it is.
C22_StoredEventsImmutable ==
    [][/\ (resp.op = "none" /\ resp'.op \in IngestOps)
            => \A i \in 1..Len(resp'.batch) :
                StoredOutcome(resp', i)
                    => \E e \in events' : StoresItem(e, resp'.batch[i])
       /\ resp'.op # "clear_events" => events \subseteq events']_vars

\* C23: seeding creates only the sample workers W1-W6 and workstations S1-S6
\* that do not exist yet and returns the numbers created; a call made when
\* they all exist (a second call in sequence) returns (0, 0) and leaves
\* workers, workstations and events unchanged.
C23_SeedIdempotent ==
    [][(resp.op = "none" /\ resp'.op = "seed_data")
        => /\ workers' = workers \cup SAMPLE_WORKERS
           /\ stations' = stations \cup SAMPLE_WORKSTATIONS
           /\ events' = events
           /\ resp'.created = <<Cardinality(workers' \ workers),
                                Cardinality(stations' \ stations)>>
           /\ (SAMPLE_WORKERS \subseteq workers /\ SAMPLE_WORKSTATIONS \subseteq stations)
                => /\ resp'.created = <<0, 0>>
                   /\ workers' = workers
                   /\ stations' = stations]_vars

\* a seeding call made while all the sample rows and some events exist has
\* returned (0, 0)
C23_Witness ==
    /\ resp.op = "seed_data" /\ resp.created = <<0, 0>>
    /\ SAMPLE_WORKERS \subseteq workers /\ SAMPLE_WORKSTATIONS \subseteq stations
    /\ events # {}

\* a seeding call has created the one sample worker that was missing
C23_WitnessPartial ==
    /\ resp.op = "seed_data" /\ resp.created = <<1, 0>>

\* C24: the count generate_dummy_events returns is the number of event rows
\* the call added to the committed store (after the optional delete), also
\* when a generated event collides with a stored key and is skipped.
C24_GeneratedCountMatchesStore ==
    /\ resp.op = "initialize_data"
        => resp.count = Cardinality(events \ resp.before)
    /\ resp.op = "refresh_data"
        => resp.count = Cardinality(events)
    /\ (resp.op = "generate_events" /\ resp.status = 200)
        => \/ resp.count = Cardinality(events \ resp.before)
           \/ resp.count = Cardinality(events)

\* the positions of the batch that ended with the given outcome
Counted(what) == {i \in 1..Len(resp.outcome) : resp.outcome[i] = what}

\* C25: for every schema-valid batch, successfully_stored + duplicates_skipped
\* + the number of items rejected for an unknown worker or workstation
\* = total_received = the number of items, each item being counted in exactly
\* one of the three classes; an item whose worker and workstation are both
\* unknown produces one diagnostic, the one for the worker.
C25_CompleteAccounting ==
    (resp.op = "ingest_batch" /\ resp.status = 200)
        => /\ resp.total_received = Len(resp.batch)
           /\ Len(resp.outcome) = Len(resp.batch)
           /\ Counted("rejected") = Failing(resp.batch)
           /\ resp.successfully_stored = Cardinality(Counted("stored"))
           /\ resp.duplicates_skipped = Cardinality(Counted("duplicate"))
           /\ resp.successfully_stored + resp.duplicates_skipped
                + Cardinality(Failing(resp.batch)) = resp.total_received
           /\ Len(resp.errors) = Min(Cardinality(Failing(resp.batch)), ErrCap)
           /\ \A i \in Failing(resp.batch) :
                (/\ resp.batch[i].worker_id \notin workers
                 /\ resp.batch[i].workstation_id \notin stations
                 /\ FailingBefore(resp.batch, i) < ErrCap)
                => resp.errors[FailingBefore(resp.batch, i) + 1]
                    = <<"Unknown worker_id", resp.batch[i].worker_id>>

\* a batch of a storable item and an item with two unknown references has
\* been answered: one stored, one rejected with the worker's diagnostic
C25_Witness ==
    /\ resp.op = "ingest_batch" /\ resp.status = 200
    /\ Len(resp.batch) = 2
    /\ resp.batch[2].worker_id \notin workers
    /\ resp.batch[2].workstation_id \notin stations
    /\ resp.successfully_stored = 1
    /\ resp.errors = << <<"Unknown worker_id", resp.batch[2].worker_id>> >>

\* the stored rows a submitted item collides with although its confidence or
\* count differs from theirs
Overwritten(item, rows) ==
    {e \in rows : /\ Key(e) = Key(item)
                  /\ (e.confidence # item.confidence \/ e.count # CountOrZero(item.count))}

\* C26: when an event is submitted, alone or in a batch, with a key that is
\* already stored but another confidence or count, the stored row keeps its
\* confidence, count and received_at, it stays the only row of its key, and
\* no field of any stored event changes.
C26_FirstWriterWins ==
    resp.op \in IngestOps
        => \A i \in 1..Len(resp.batch) :
            \A e \in Overwritten(resp.batch[i], resp.before) :
                /\ RowsWithKey(events, Key(e)) = {e}
                /\ resp.before \subseteq events

\* a submission at a later instant, with another confidence and count, of a
\* stored key has been answered (409, or a batch that skipped it)
C26_Witness ==
    /\ resp.op = "ingest_event" /\ resp.status = 409
    /\ \E e \in Overwritten(resp.batch[1], resp.before) :
        /\ e.received_at < now
        /\ e.confidence # resp.batch[1].confidence
        /\ e \in events

\* the same in a batch: the colliding item was skipped as a duplicate
C26_WitnessBatch ==
    /\ resp.op = "ingest_batch" /\ resp.duplicates_skipped = 1
    /\ \E i \in 1..Len(resp.batch) :
        \E e \in Overwritten(resp.batch[i], resp.before) : e.received_at < now

\* the records of a list that count at least one event
Active(ms) == {m \in ms : m.event_count > 0}

RECURSIVE SumEventCount(_)
SumEventCount(ms) ==
    IF ms = {} THEN 0
    ELSE LET m == CHOOSE x \in ms : TRUE IN m.event_count + SumEventCount(ms \ {m})

\* C27: also when ingestion or an event reset commits while the query runs,
\* in every dashboard summary returned active_workers is the number of
\* worker_metrics entries with event_count > 0, active_workstations the
\* number of such workstation_metrics entries, and total_events the size of
\* the event set the two lists were computed from (every event of that set
\* is counted by its worker's entry and by its workstation's entry, each
\* event here referencing a registered worker and workstation).
C27_DashboardConsistent ==
    req.pc = "done"
        => /\ req.result.factory_metrics.active_workers
                = Cardinality(Active(req.result.worker_metrics))
           /\ req.result.factory_metrics.active_workstations
                = Cardinality(Active(req.result.workstation_metrics))
           /\ req.result.factory_metrics.total_events
                = SumEventCount(req.result.worker_metrics)
           /\ req.result.factory_metrics.total_events
                = SumEventCount(req.result.workstation_metrics)

\* the requests of slots p and q are for the same worker_id and both passed
\* the existence check before either committed
Raced(p, q) ==
    /\ p # q
    /\ req[p].pc = "done" /\ req[q].pc = "done"
    /\ req[p].worker_id = req[q].worker_id
    /\ ~req[p].existing /\ ~req[q].existing

\* C28: when two create_worker requests for the same worker_id both pass the
\* existence check before either commits, exactly one of them creates the
\* worker (201) and the other ends with the 409 conflict, not with an
\* unhandled failure; the worker is stored once.
C28_RegistrationExactlyOnce ==
    \A p \in Slots : \A q \in Slots :
        Raced(p, q)
            => /\ req[p].worker_id \in workers
               /\ {req[p].status, req[q].status} = {201, 409}

RECURSIVE SumUnitsProduced(_)
SumUnitsProduced(ms) ==
    IF ms = {} THEN 0
    ELSE LET m == CHOOSE x \in ms : TRUE IN
         m.total_units_produced + SumUnitsProduced(ms \ {m})

\* the workers' and the workstations' records for a window, on the rows given
WorkersOn(rows, a, b) == compute_worker_metrics(rows, workers, NoId, a, b)
StationsOn(rows, a, b) == compute_workstation_metrics(rows, stations, NoId, a, b)

\* every stored event references a registered worker and workstation
AllRefsRegistered ==
    \A e \in events : e.worker_id \in workers /\ e.workstation_id \in stations

\* for every window the factory totals are the sums of the entities' records
CrossLevel ==
    AllRefsRegistered
        => \A a \in Bounds : \A b \in Bounds :
            LET wm == WorkersOn(events, a, b)
                sm == StationsOn(events, a, b)
                worker_events == SumEventCount(wm)
                station_events == SumEventCount(sm)
                worker_units == SumUnitsProduced(wm) IN
            \A f \in compute_factory_metrics(events, workers, stations, a, b) :
                /\ f.total_events = worker_events
                /\ f.total_events = station_events
                /\ f.total_production_count = worker_units

\* a step that stores events leaves the record of every worker and of every
\* workstation the new events do not name as it was, for every window
IsolatedStep ==
    (events \subseteq events' /\ events' # events)
        => LET added == events' \ events IN
           \A a \in Bounds : \A b \in Bounds :
                /\ \A m \in WorkersOn(events, a, b) :
                    m.worker_id \notin {e.worker_id : e \in added}
                        => m \in WorkersOn(events', a, b)
                /\ \A m \in StationsOn(events, a, b) :
                    m.station_id \notin {e.workstation_id : e \in added}
                        => m \in StationsOn(events', a, b)

\* C29: storing an event for worker A at station S changes the metrics of no
\* worker other than A and no workstation other than S; and in every state
\* where each stored event references a registered worker and workstation,
\* for every window the factory total_events is the sum of event_count over
\* the workers and also over the workstations, and total_production_count
\* the sum of total_units_produced over the workers.
C29_IsolationAndAgreement == [][IsolatedStep]_vars /\ []CrossLevel

\* an event of W2 at S2 has been stored next to events of W1 at S1, one of
\* them a product_count event
C29_Witness ==
    /\ resp.op = "ingest_event" /\ resp.status = 201
    /\ resp.batch[1].worker_id = "W2" /\ resp.batch[1].workstation_id = "S2"
    /\ \E e \in resp.before :
        /\ e.worker_id = "W1" /\ e.workstation_id = "S1"
        /\ e.event_type = "product_count" /\ e.count > 0
    /\ \E e \in resp.before : e.worker_id = "W2" /\ e.workstation_id = "S1"
    /\ events # resp.before

====
